---------------------------- MODULE Spec2Model ----------------------------
(***************************************************************************)
(* A model of the LeadForge dashboard (harunali86/leads-):                 *)
(*   - the phone normaliser  formatPhoneForWhatsApp                        *)
(*   - the lead classifier   getAnalysis (DashboardClient.tsx, page.tsx)   *)
(*   - the lead listing      the React-Query cache of leads, its optimistic*)
(*                           updates and the sorted, filtered view         *)
(* Strings the code inspects character by character (phone numbers,        *)
(* business names, ids) are sequences of one-character strings.            *)
(***************************************************************************)
EXTENDS Integers, Sequences, FiniteSets, TLC

VARIABLES
    phone,      \* the argument of formatPhoneForWhatsApp
    waOut,      \* its return value
    phPc,       \* "call" before the call, "done" after it
    capable,    \* what isWhatsAppCapable of DashboardClient.tsx returns
    capableV2,  \* what isWhatsAppCapable of page.tsx (v2.0) returns
    waLinks,    \* the places of a card or row that render a wa.me link for the lead
    lead,       \* the argument of getAnalysis
    analysis,   \* the bundle getAnalysis of DashboardClient.tsx returns
    analysisV2, \* the bundle getAnalysis of page.tsx (v2.0) returns
    clsPc,      \* "call" before the call, "done" after it
    channel,    \* the tag getLeadSource of page.tsx returns
    db,         \* the leads table of the store, newest row first
    leads,      \* the query data of ['leads', activeCampaignId]
    fetched,    \* the rows (id, business_name) the last query returned, before dedup
    searchTerm, \* the search box
    showPremiumOnly,
    hideWebsites,
    pinRun,     \* the current run of togglePin calls on one lead, and the list before it
    alerted,    \* the last step raised an alert() dialog
    pageLeads,  \* the leads state of page.tsx (v2.0): the rows of its last fetchLeads
    stats,      \* the stats state of page.tsx: its contacted counter
    sourceCounts, \* the sourceCounts state of page.tsx: the badge of each tab
    body,       \* the JSON body of a request to the delete endpoint
    supabaseAdmin, \* the privileged client exists (the service key is set)
    response,   \* the status of the endpoint's response, 0 before it answers
    rendered,   \* the leads the handlers of the last render closed over
    prompt,     \* the operator's answer to the confirm() of the last step
    viewedCampaign, \* the activeCampaignId state once tabs are switched
    cache,      \* the query data under each key ['leads', campaign]
    inflight,   \* the leads queries that were sent and have not answered yet
    delivered   \* the key of the query that answered in the last step

phoneVars == <<phone, waOut, phPc, capable, capableV2, waLinks>>
clsVars == <<lead, analysis, analysisV2, clsPc, channel>>
dashVars == <<db, leads, fetched, searchTerm, showPremiumOnly, hideWebsites, pinRun,
             alerted, pageLeads, stats, sourceCounts>>
vars == <<phone, waOut, phPc, capable, capableV2, waLinks, lead, analysis, analysisV2, clsPc, channel,
          db, leads, fetched, searchTerm, showPremiumOnly, hideWebsites, pinRun,
          alerted, pageLeads, stats, sourceCounts, body, supabaseAdmin, response,
          rendered, prompt, viewedCampaign, cache, inflight, delivered>>
apiVars == <<body, supabaseAdmin, response>>
viewVars == <<rendered, prompt>>
tabVars == <<viewedCampaign, cache, inflight, delivered>>

---------------------------------------------------------------------------
(* Characters and strings *)

Digits == {"0", "1", "2", "3", "4", "5", "6", "7", "8", "9"}

\* String.prototype.startsWith
StartsWith(s, p) == Len(s) >= Len(p) /\ SubSeq(s, 1, Len(p)) = p

\* String.prototype.substring(1)
Substring1(s) == IF Len(s) = 0 THEN <<>> ELSE Tail(s)

---------------------------------------------------------------------------
(* Phone normaliser: DashboardClient.tsx, formatPhoneForWhatsApp *)

\* phone.replace(/[^\d+]/g, ''): every '+' is kept, wherever it stands
CleanPhone(p) == SelectSeq(p, LAMBDA c : c \in Digits \cup {"+"})

\* /^[6-9]/.test(clean)
StartsSixToNine(s) == Len(s) > 0 /\ s[1] \in {"6", "7", "8", "9"}

\* A slip in the trunk-prefix rule: the leading '0' is kept behind the country code
formatPhone_keepsZero(p) ==
    LET clean == CleanPhone(p) IN
    IF StartsWith(clean, <<"+">>) THEN Substring1(clean)
    ELSE IF StartsWith(clean, <<"0", "5">>) THEN <<"9", "7", "1">> \o clean
    ELSE IF StartsWith(clean, <<"0", "4">>) THEN <<"9", "7", "1">> \o clean
    ELSE IF Len(clean) = 10 /\ StartsSixToNine(clean) THEN <<"9", "1">> \o clean
    ELSE IF Len(clean) = 9 /\ StartsWith(clean, <<"5">>) THEN <<"9", "7", "1">> \o clean
    ELSE clean

formatPhoneForWhatsApp(p) ==
    LET clean == CleanPhone(p) IN
    IF StartsWith(clean, <<"+">>) THEN Substring1(clean)
    ELSE IF StartsWith(clean, <<"0", "5">>) THEN <<"9", "7", "1">> \o Substring1(clean)
    ELSE IF StartsWith(clean, <<"0", "4">>) THEN <<"9", "7", "1">> \o Substring1(clean)
    ELSE IF Len(clean) = 10 /\ StartsSixToNine(clean) THEN <<"9", "1">> \o clean
    ELSE IF Len(clean) = 9 /\ StartsWith(clean, <<"5">>) THEN <<"9", "7", "1">> \o clean
    ELSE clean

\* Bounds of the phone inputs: a free prefix followed by a run of digits
MaxPrefix == 2
MaxFill == 9

PhoneAlphabet == {"+", "0", "4", "5", "6", "1", "-"}

FillDigits == <<"1", "2", "3", "4", "5", "6", "7", "8", "9", "0", "1">>

Fill(k) == SubSeq(FillDigits, 1, k)

PhonePrefixes == UNION {[1..n -> PhoneAlphabet] : n \in 0..MaxPrefix}

\* The spec's worked examples (spec.md, section 8)
Ex0501234567 == <<"0", "5", "0", "1", "2", "3", "4", "5", "6", "7">>
ExPlus971501234567 == <<"+", "9", "7", "1", "5", "0", "1", "2", "3", "4", "5", "6", "7">>
Ex9876543210 == <<"9", "8", "7", "6", "5", "4", "3", "2", "1", "0">>
Ex512345678 == <<"5", "1", "2", "3", "4", "5", "6", "7", "8">>

PhoneInputs ==
    {pre \o Fill(k) : pre \in PhonePrefixes, k \in 0..MaxFill}
        \cup {Ex0501234567, ExPlus971501234567, Ex9876543210, Ex512345678}

---------------------------------------------------------------------------
(* JavaScript values *)

\* null (an absent column) and undefined (a missing property)
NULL == "<null>"
UNDEF == "<undefined>"
\* the booleans, where they share a slot with strings
JTrue == "true"
JFalse == "false"
\* a numeric column that holds null
NoNumber == -1
\* a phone column that holds null (or the empty string)
NoPhone == <<>>

\* ToBoolean
Truthy(v) == v \notin {NULL, UNDEF, "", JFalse}

\* a || b
Or(a, b) == IF Truthy(a) THEN a ELSE b

\* (n || 0) on a numeric column
NumOr0(n) == IF n = NoNumber THEN 0 ELSE n

\* JSON values: null, or an object (a function from property names)
JNull == [t |-> "null"]
JObj(o) == [t |-> "obj", o |-> o]
EmptyObj == <<>>

\* o.f on an object
Get(o, f) == IF f \in DOMAIN o THEN o[f] ELSE UNDEF

\* { ...o, [f]: v }
SpreadWith(o, f, v) == [k \in DOMAIN o \cup {f} |-> IF k = f THEN v ELSE o[k]]

\* The notes column: null, a text that is not JSON, or a JSON text
AbsentNotes == [kind |-> "absent"]
MalformedNotes == [kind |-> "malformed"]
JsonNotes(v) == [kind |-> "json", val |-> v]

\* JSON.stringify of an object whose properties are strings and booleans
JSONstringify(o) == JsonNotes(JObj(o))

---------------------------------------------------------------------------
(* Lead classifier: DashboardClient.tsx (v2.1) *)

\* A slip: the catch block leaves the value null instead of {}
parseNotes_nullOnError(l) ==
    IF l.notes.kind = "absent" THEN JObj(EmptyObj)
    ELSE IF l.notes.kind = "malformed" THEN JNull
    ELSE l.notes.val

\* try { return lead.notes ? JSON.parse(lead.notes) : {}; } catch (e) { return {}; }
parseNotes(l) ==
    IF l.notes.kind = "absent" THEN JObj(EmptyObj)
    ELSE IF l.notes.kind = "malformed" THEN JObj(EmptyObj)
    ELSE l.notes.val

\* A call that ends in a TypeError
Thrown == [threw |-> TRUE]

Pitch(tpl, to, a1, a2) == [tpl |-> tpl, to |-> to, a1 |-> a1, a2 |-> a2]

\* The sample values of role / job_title and the substrings the code looks for
\* in their lower-cased text ('property', 'estate', 'real'; 'web', 'software', 'it')
RoleIsRealEstate(r) == r = "Property Consultant"
RoleIsTech(r) == r = "Web Developer"

\* audit.fail_reason.includes('Social')
IncludesSocial(r) == r = "Social Media Link"

\* lead.source?.includes(...) for the platform label
PlatformOf(src) ==
    IF src = "FACEBOOK_SCRAPE" THEN "Facebook" ELSE "Google Maps"

\* String.prototype.charCodeAt(0) on the characters ids are made of
CharCode(c) ==
    CASE c = "a" -> 97 [] c = "b" -> 98 [] c = "c" -> 99 [] c = "d" -> 100
      [] c = "1" -> 49 [] c = "2" -> 50 [] c = "3" -> 51 [] c = "4" -> 52

\* A slip: only the first character is counted
CodeSum_firstChar(id) == IF id = <<>> THEN 0 ELSE CharCode(Head(id))

RECURSIVE CodeSum(_)
\* lead.id.split('').reduce((a, b) => a + b.charCodeAt(0), 0)
CodeSum(id) == IF id = <<>> THEN 0 ELSE CharCode(Head(id)) + CodeSum(Tail(id))

NumVariations == 3

HirerSources == {"INDEED_GULF_HUNT", "LINKEDIN_AUTH_SNIPE", "CENTURION_GULF_HUNT"}

getAnalysis(l) ==
    LET audit == parseNotes(l) IN
    IF audit.t = "null" THEN Thrown     \* audit.is_pinned on null
    ELSE
    LET a == audit.o
        name == l.business_name
        result == [threw |-> FALSE,
                   tag |-> "Optimization",
                   pitch |-> Pitch("optimize", name, "", ""),
                   email |-> l.email,
                   sourceUrl |-> l.google_maps_url,
                   websiteUrl |-> l.website,
                   platform |-> PlatformOf(l.source),
                   budget |-> NULL,
                   isPinned |-> Truthy(Get(a, "is_pinned"))]
    IN
    IF l.source = "AD_BURNER_HUNT" THEN
        [result EXCEPT
            !.tag = "CASH BLEED: Social Ads",
            !.pitch = Pitch("ad_burner", name, Or(Get(a, "keyword"), "your services"),
                            IF IncludesSocial(Get(a, "fail_reason"))
                            THEN "a Social Media page" ELSE "a broken/generic link"),
            !.platform = "Google Ads",
            !.sourceUrl = Or(Get(a, "target_url"), l.google_maps_url)]
    ELSE IF l.source \in HirerSources THEN
        LET role == Or(Get(a, "role"), Or(Get(a, "job_title"), "High-Ticket Prospect")) IN
        [result EXCEPT
            !.tag = IF Truthy(Get(a, "is_gold_mine"))
                    THEN "GOLD MINE: High Conversion" ELSE "Money Hunt: Hirer",
            !.pitch = IF RoleIsRealEstate(role) THEN Pitch("hirer_property", name, "", "")
                      ELSE IF RoleIsTech(role) THEN Pitch("hirer_tech", name, role, "")
                      ELSE Pitch("hirer_generic", name, role, ""),
            !.platform = Or(Get(a, "platform"), "Indeed")]
    ELSE IF l.source = "HIGH_INTENT_PROJECT" \/ Get(a, "intent") = "DIRECT_DEVELOPER_NEED" THEN
        [result EXCEPT
            !.tag = "Project: Hot",
            !.pitch = IF Truthy(Get(a, "ai_proposal"))
                      THEN Pitch("verbatim", <<>>, Get(a, "ai_proposal"), "")
                      ELSE Pitch("project", name, "", ""),
            !.platform = "Freelancer",
            !.sourceUrl = Or(Get(a, "project_url"), l.google_maps_url),
            !.budget = Get(a, "budget")]
    ELSE IF l.source = "MISSION_CONTROL"
            \/ Truthy(Or(Get(a, "founder_linkedin"), Get(a, "founder_email"))) THEN
        [result EXCEPT
            !.tag = "Bypass Mission",
            !.pitch = IF Truthy(Get(a, "connection_pitch"))
                      THEN Pitch("verbatim", <<>>, Get(a, "connection_pitch"), "")
                      ELSE Pitch("founder", name, Or(Get(a, "founder_name"), "Founder"), ""),
            !.platform = Or(Get(a, "platform"), "Direct"),
            !.sourceUrl = Or(Get(a, "job_url"), Or(Get(a, "founder_linkedin"), l.google_maps_url)),
            !.email = Or(Get(a, "founder_email"), l.email)]
    ELSE IF l.is_premium THEN
        [result EXCEPT
            !.tag = "Premium Target",
            !.pitch = Pitch("premium", name, "", "") @@ [variant |-> CodeSum(l.id) % NumVariations]]
    ELSE IF l.source = "MAPS_NO_WEBSITE" \/ ~Truthy(l.website) THEN
        [result EXCEPT
            !.tag = "No Website Gold",
            !.pitch = Pitch("no_website", name, "", "")]
    ELSE
        [result EXCEPT
            !.tag = "Growth Target",
            !.pitch = Pitch("growth", name, "", "")]

---------------------------------------------------------------------------
(* Lead classifier: page.tsx (v2.0) *)

\* let audit = null; try { if (lead.notes) audit = JSON.parse(lead.notes); } catch (e) { }
parseAudit_page(l) == IF l.notes.kind = "json" THEN l.notes.val ELSE JNull

\* Reputation thresholds, ratings in tenths of a star
AukatRating == 45
AukatReviews == 100
TopRatedReviews == 50

BypassSources == {"MISSION_CONTROL", "QUALITY_SNIPER", "QUALITY_BUREAU"}

ResultV2(tag, pitch, email, platform, jobUrl, budget) ==
    [threw |-> FALSE, tag |-> tag, pitch |-> pitch, email |-> email,
     platform |-> platform, jobUrl |-> jobUrl, budget |-> budget]

getAnalysis_page(l) ==
    LET audit == parseAudit_page(l)
        has == audit.t = "obj"      \* audit is truthy
        a == IF has THEN audit.o ELSE EmptyObj
        name == l.business_name
        noSite == ~Truthy(l.website)
    IN
    IF l.source = "HIGH_INTENT_PROJECT"
        \/ (has /\ (Get(a, "source") = "HIGH_INTENT_PROJECT"
                    \/ Get(a, "intent") = "DIRECT_DEVELOPER_NEED")) THEN
        IF ~has THEN Thrown         \* audit.ai_proposal on null
        ELSE ResultV2("Project: Hot",
                      IF Truthy(Get(a, "ai_proposal"))
                      THEN Pitch("verbatim", <<>>, Get(a, "ai_proposal"), "")
                      ELSE Pitch("project_pending", name, Get(a, "job_title"), ""),
                      l.email, "Freelancer",
                      Or(Get(a, "project_url"), l.google_maps_url),
                      Or(Get(a, "budget"), "Inquiry"))
    ELSE IF l.source \in BypassSources
        \/ (has /\ Truthy(Or(Get(a, "founder_linkedin"), Get(a, "founder_email")))) THEN
        IF ~has THEN Thrown         \* audit.founder_name on null
        ELSE ResultV2("Bypass Mission",
                      IF Truthy(Get(a, "connection_pitch"))
                      THEN Pitch("verbatim", <<>>, Get(a, "connection_pitch"), "")
                      ELSE Pitch("founder_direct", name,
                                 Or(Get(a, "founder_name"), Or(l.contact_name, "Founder")),
                                 Or(Get(a, "job_title"), "Project")),
                      Or(Get(a, "founder_email"), l.email),
                      Or(Get(a, "platform"), "Job Board"),
                      Or(Get(a, "job_url"), l.google_maps_url),
                      UNDEF)
    ELSE IF l.is_premium THEN
        ResultV2("Premium Target", Pitch("premium_linkedin", name, l.contact_name, ""),
                 UNDEF, UNDEF, UNDEF, UNDEF)
    ELSE IF noSite /\ NumOr0(l.rating) >= AukatRating /\ NumOr0(l.review_count) >= AukatReviews THEN
        ResultV2("Aukat Strike Target", Pitch("aukat", name, "", ""),
                 UNDEF, "Google Maps", l.google_maps_url, UNDEF)
    ELSE IF noSite /\ NumOr0(l.rating) >= AukatRating /\ NumOr0(l.review_count) >= TopRatedReviews THEN
        ResultV2("Top Rated Target", Pitch("top_rated", name, "", ""),
                 UNDEF, "Google Maps", l.google_maps_url, UNDEF)
    ELSE IF noSite THEN
        ResultV2("No Website", Pitch("no_website_maps", name, "", ""),
                 UNDEF, "Google Maps", l.google_maps_url, UNDEF)
    ELSE IF l.source = "VERIFIED_FUNDING" \/ (has /\ Get(a, "source") = "VERIFIED_FUNDING") THEN
        IF ~has THEN Thrown         \* audit.funding_amount on null
        ELSE ResultV2("Verified: Funded",
                      Pitch("funded", name, Or(l.contact_name, "Founder"),
                            Or(Get(a, "funding_amount"), "Seed")),
                      l.email, "Direct Email", l.google_maps_url, UNDEF)
    ELSE
        ResultV2("Optimization", Pitch("optimize", name, "", ""),
                 UNDEF, "Google Maps", l.google_maps_url, UNDEF)

---------------------------------------------------------------------------
(* Lead listing: DashboardClient.tsx (v2.1) *)

\* String.prototype.toLowerCase on the letters business names are made of
LowerChar(c) ==
    CASE c = "A" -> "a" [] c = "B" -> "b" [] c = "C" -> "c" [] c = "M" -> "m"
      [] c = "E" -> "e" [] c = "O" -> "o" [] c = "L" -> "l" [] c = "T" -> "t"
      [] c = "G" -> "g" [] c = "Y" -> "y" [] c = "D" -> "d"
      [] OTHER -> c

toLowerCase(str) == [i \in 1..Len(str) |-> LowerChar(str[i])]

RECURSIVE trimStart(_)
trimStart(str) ==
    IF str # <<>> /\ Head(str) = " " THEN trimStart(Tail(str)) ELSE str

RECURSIVE trimEnd(_)
trimEnd(str) ==
    IF str # <<>> /\ str[Len(str)] = " " THEN trimEnd(SubSeq(str, 1, Len(str) - 1)) ELSE str

\* String.prototype.trim
trim(str) == trimEnd(trimStart(str))

\* String.prototype.includes
includes(str, sub) ==
    \E i \in 0..(Len(str) - Len(sub)) : SubSeq(str, i + 1, i + Len(sub)) = sub

\* lead.business_name.trim().toLowerCase()
normalizedName(l) == toLowerCase(trim(l.business_name))

\* A slip: the dedup key is the raw business name
dedupKey_raw(l) == l.business_name

dedupKey(l) == normalizedName(l)

\* the campaign tab that is open
activeCampaignId == "c1"

RECURSIVE uniqueLeads(_, _)
\* data.forEach(lead => { if (!uniqueLeadsMap.has(key)) uniqueLeadsMap.set(key, lead) })
\* followed by Array.from(uniqueLeadsMap.values()); seen holds the keys set so far
uniqueLeads(data, seen) ==
    IF data = <<>> THEN <<>>
    ELSE IF dedupKey(Head(data)) \in seen THEN uniqueLeads(Tail(data), seen)
    ELSE <<Head(data)>> \o uniqueLeads(Tail(data), seen \cup {dedupKey(Head(data))})

\* .eq('campaign_id', activeCampaignId).neq('status', 'TRASH').order('created_at', desc)
selectLeadsOf(table, campaign) ==
    SelectSeq(table, LAMBDA r : r.campaign_id = campaign /\ r.status # "TRASH")

selectLeads(table) == selectLeadsOf(table, activeCampaignId)

\* the queryFn of the leads query as the render with campaign tab `campaign`
\* makes it: `if (!activeCampaignId) return []`, the select and the dedup
queryFnOf(table, campaign) ==
    IF ~Truthy(campaign) THEN <<>> ELSE uniqueLeads(selectLeadsOf(table, campaign), {})

\* A slip: one list for all tabs, so an answer lands in the list on screen
setQueryData_activeKey(cch, active, key, data) == [cch EXCEPT ![active] = data]

\* the data of a query is kept under its own key ['leads', campaign]
setQueryData(cch, active, key, data) == [cch EXCEPT ![key] = data]

\* `const { data: leads = [] } = useQuery(...)`: the data under the key of
\* the open tab, [] while there is none
dataOf(cch, active) ==
    IF ~Truthy(active) THEN <<>>
    ELSE IF cch[active] = UNDEF THEN <<>> ELSE cch[active]

\* the queryFn of the leads query
queryFn(table) == uniqueLeads(selectLeads(table), {})

\* the filter of filteredLeads
matchesFilters(l) ==
    /\ \/ includes(toLowerCase(l.business_name), toLowerCase(searchTerm))
       \/ (l.phone # NoPhone /\ includes(l.phone, searchTerm))
    /\ (showPremiumOnly => l.is_premium)
    /\ (hideWebsites => ~Truthy(l.website))

AukatTag == "Aukat Strike Target"

\* A slip: the pinned flag is left out of the comparator
compareLeads_noPin(a, b) ==
    LET aAnalysis == getAnalysis(a)
        bAnalysis == getAnalysis(b)
    IN
    IF aAnalysis.tag = AukatTag /\ bAnalysis.tag # AukatTag THEN -1
    ELSE IF aAnalysis.tag # AukatTag /\ bAnalysis.tag = AukatTag THEN 1
    ELSE NumOr0(b.review_count) - NumOr0(a.review_count)

\* A slip: the review counts are subtracted the wrong way round
compareLeads_ascending(a, b) ==
    LET aAnalysis == getAnalysis(a)
        bAnalysis == getAnalysis(b)
    IN
    IF aAnalysis.isPinned /\ ~bAnalysis.isPinned THEN -1
    ELSE IF ~aAnalysis.isPinned /\ bAnalysis.isPinned THEN 1
    ELSE IF aAnalysis.tag = AukatTag /\ bAnalysis.tag # AukatTag THEN -1
    ELSE IF aAnalysis.tag # AukatTag /\ bAnalysis.tag = AukatTag THEN 1
    ELSE NumOr0(a.review_count) - NumOr0(b.review_count)

\* the comparator of filteredLeads' sort
compareLeads(a, b) ==
    LET aAnalysis == getAnalysis(a)
        bAnalysis == getAnalysis(b)
    IN
    IF aAnalysis.isPinned /\ ~bAnalysis.isPinned THEN -1
    ELSE IF ~aAnalysis.isPinned /\ bAnalysis.isPinned THEN 1
    ELSE IF aAnalysis.tag = AukatTag /\ bAnalysis.tag # AukatTag THEN -1
    ELSE IF aAnalysis.tag # AukatTag /\ bAnalysis.tag = AukatTag THEN 1
    ELSE NumOr0(b.review_count) - NumOr0(a.review_count)

RECURSIVE insertSorted(_, _)
\* x goes before the first element it compares less than: a stable sort
insertSorted(x, sorted) ==
    IF sorted = <<>> THEN <<x>>
    ELSE IF compareLeads(x, Head(sorted)) < 0 THEN <<x>> \o sorted
    ELSE <<Head(sorted)>> \o insertSorted(x, Tail(sorted))

RECURSIVE sortLeads(_)
\* Array.prototype.sort (stable) with compareLeads
sortLeads(list) ==
    IF list = <<>> THEN <<>>
    ELSE insertSorted(list[Len(list)], sortLeads(SubSeq(list, 1, Len(list) - 1)))

shownLeads == SelectSeq(leads, matchesFilters)

\* getAnalysis throws while the list is sorted or mapped to cards: nothing is rendered
renderThrows == \E i \in 1..Len(shownLeads) : getAnalysis(shownLeads[i]).threw

\* leads.filter(...).sort(...): the rendered list
filteredLeads == IF renderThrows THEN <<>> ELSE sortLeads(shownLeads)

\* the leads whose cards are on screen (filteredLeads.map)
Cards == IF renderThrows THEN {} ELSE {shownLeads[i] : i \in 1..Len(shownLeads)}

LeadById(list, id) == CHOOSE l \in {list[i] : i \in 1..Len(list)} : l.id = id

MapLeads(list, f(_)) == [i \in 1..Len(list) |-> f(list[i])]

flipStatus(st) == IF st = "CONTACTED" THEN "NEW" ELSE "CONTACTED"

\* A slip: the flag is set instead of flipped
pinnedNotes_alwaysPinned(l) ==
    LET currentNotes == parseNotes(l).o IN
    JSONstringify(SpreadWith(currentNotes, "is_pinned", JTrue))

\* JSON.stringify({ ...currentNotes, is_pinned: !isPinned })
pinnedNotes(l) ==
    LET currentNotes == parseNotes(l).o
        isPinned == Truthy(Get(currentNotes, "is_pinned"))
    IN JSONstringify(SpreadWith(currentNotes, "is_pinned", IF isPinned THEN JFalse ELSE JTrue))

\* supabase.from('leads').update(patch).eq('id', id)
updateStatus(table, id, st) ==
    MapLeads(table, LAMBDA r : IF r.id = id THEN [r EXCEPT !.status = st] ELSE r)
updateNotes(table, id, n) ==
    MapLeads(table, LAMBDA r : IF r.id = id THEN [r EXCEPT !.notes = n] ELSE r)

\* A slip: the id is preferred to the business name
deleteRows_idFirst(table, id, name) ==
    IF id # <<>> THEN SelectSeq(table, LAMBDA r : r.id # id)
    ELSE SelectSeq(table, LAMBDA r : r.business_name # name)

\* the delete endpoint: by business_name when one is sent, else by id
deleteRows(table, id, name) ==
    IF name # <<>> THEN SelectSeq(table, LAMBDA r : r.business_name # name)
    ELSE SelectSeq(table, LAMBDA r : r.id # id)

\* POST /api/leads/delete: the table and the response status it ends with.
\* A field of the body that is missing or empty is <<>>; storeOk is false when
\* the store answers the delete with an error
POST(table, b, admin, storeOk) ==
    IF b.business_name = <<>> /\ b.id = <<>> THEN [table |-> table, status |-> 400]
    ELSE IF ~admin THEN [table |-> table, status |-> 500]
    ELSE IF ~storeOk THEN [table |-> table, status |-> 500]
    ELSE [table |-> deleteRows(table, b.id, b.business_name), status |-> 200]

\* A slip: the request is made whatever the operator answers
deleteRequest_unconfirmed(confirmed, leadId, parsedLead) ==
    [id |-> leadId, business_name |-> parsedLead.business_name]

\* deleteLead: `if (!confirm(...)) return`, then the body of the request sent
\* to /api/leads/delete; no request is the body without fields
deleteRequest(confirmed, leadId, parsedLead) ==
    IF ~confirmed THEN [id |-> <<>>, business_name |-> <<>>]
    ELSE [id |-> leadId, business_name |-> parsedLead.business_name]

\* deleteLead, the optimistic update of the query data
removeOptimistic(old, leadId, targetName) ==
    SelectSeq(old, LAMBDA l : l.id # leadId /\ l.business_name # targetName)

\* A slip: the catch block leaves the optimistic list as it is
afterDeleteFailed_kept(optimistic, table) == optimistic

\* deleteLead, the catch block: invalidateQueries(['leads']) has the query
\* run again, and its result replaces the optimistic list
afterDeleteFailed(optimistic, table) == queryFn(table)

---------------------------------------------------------------------------
(* The leads the classifier is run on *)

\* At most this many properties in a notes object
MaxNoteFields == 2

NoteFields ==
    {"is_pinned", "keyword", "fail_reason", "target_url", "role", "job_title",
     "is_gold_mine", "platform", "intent", "ai_proposal", "project_url", "budget",
     "founder_linkedin", "founder_email", "connection_pitch", "founder_name",
     "job_url", "source", "funding_amount"}

NoteVals(f) ==
    CASE f = "is_pinned" -> {JTrue, JFalse}
      [] f = "is_gold_mine" -> {JTrue}
      [] f = "intent" -> {"DIRECT_DEVELOPER_NEED", "BROWSING"}
      [] f = "source" -> {"HIGH_INTENT_PROJECT", "VERIFIED_FUNDING"}
      [] f = "fail_reason" -> {"Social Media Link", "Generic Homepage"}
      [] f = "role" -> {"Property Consultant", "Web Developer", "Sales Executive"}
      [] f = "job_title" -> {"Web Developer"}
      [] f = "keyword" -> {"dentist dubai"}
      [] f = "target_url" -> {"https://ads.example/landing"}
      [] f = "platform" -> {"LinkedIn"}
      [] f = "ai_proposal" -> {"Proposal text"}
      [] f = "project_url" -> {"https://freelancer.example/p/1"}
      [] f = "budget" -> {"$500"}
      [] f = "founder_linkedin" -> {"https://linkedin.example/in/founder"}
      [] f = "founder_email" -> {"founder@acme.example"}
      [] f = "connection_pitch" -> {"Connection pitch text"}
      [] f = "founder_name" -> {"Sam"}
      [] f = "job_url" -> {"https://jobs.example/1"}
      [] f = "funding_amount" -> {"$2M"}

RECURSIVE NoteObjects(_)
\* the objects with at most k properties
NoteObjects(k) ==
    IF k = 0 THEN {EmptyObj}
    ELSE LET smaller == NoteObjects(k - 1) IN
         smaller \cup UNION {UNION {{SpreadWith(o, f, v) : v \in NoteVals(f)} :
                                     f \in NoteFields \ DOMAIN o} : o \in smaller}

NotesInputs ==
    {AbsentNotes, MalformedNotes, JsonNotes(JNull)}
        \cup {JsonNotes(JObj(o)) : o \in NoteObjects(MaxNoteFields)}

Sources ==
    {NULL, "AD_BURNER_HUNT", "INDEED_GULF_HUNT", "LINKEDIN_AUTH_SNIPE",
     "CENTURION_GULF_HUNT", "HIGH_INTENT_PROJECT", "MISSION_CONTROL",
     "MAPS_NO_WEBSITE", "QUALITY_SNIPER", "VERIFIED_FUNDING", "FACEBOOK_SCRAPE"}

Acme == <<"A", "c", "m", "e">>
MapsUrl == "https://google.com/maps/place/1"
SiteUrl == "https://acme.example"

ClassifierLeads ==
    [id : {<<"a", "1">>},
     business_name : {Acme},
     status : {"NEW"},
     campaign_id : {"c1"},
     email : {NULL, "info@acme.example"},
     website : {NULL, SiteUrl},
     rating : {NoNumber, AukatRating - 1, AukatRating},
     review_count : {NoNumber, AukatReviews - 1, AukatReviews},
     google_maps_url : {MapsUrl},
     is_premium : BOOLEAN,
     source : Sources,
     contact_name : {NULL},
     phone : {NoPhone},
     notes : NotesInputs]

---------------------------------------------------------------------------
(* The source resolver: getLeadSource of page.tsx, and the sniper list of
   verify_count.js *)

MarkHN == <<"[", "H", "N", "]">>
MarkReddit == <<"[", "R", "e", "d", "d", "i", "t", "]">>
MarkFunded == <<"[", "F", "U", "N", "D", "E", "D", "]">>

\* the sample values of google_maps_url, and url.includes('google.com/maps')
YelpUrl == "https://yelp.example/biz/1"
IncludesMapsProfile(u) == u = MapsUrl

\* the result of the try block: a returned tag, or "fell" when the block is
\* left without a return (notes falsy, JSON.parse or notes.source throwing
\* into the empty catch, neither field matching)
notesChannel(l) ==
    IF l.notes.kind # "json" THEN "fell"
    ELSE IF l.notes.val.t = "null" THEN "fell"
    ELSE LET notes == l.notes.val.o IN
         IF Truthy(Get(notes, "source")) THEN Get(notes, "source")
         ELSE IF Get(notes, "market") = "MIDDLE_EAST" THEN "GULF"
         ELSE "fell"

\* A slip: the maps URL is looked at before the bracket markers
getLeadSource_mapsFirst(l) ==
    IF notesChannel(l) # "fell" THEN notesChannel(l)
    ELSE IF l.source = "GULF_SNIPER" THEN "GULF"
    ELSE IF Truthy(l.source) THEN l.source
    ELSE IF IncludesMapsProfile(l.google_maps_url) THEN "GOOGLE_MAPS"
    ELSE IF StartsWith(l.business_name, MarkHN) THEN "HACKER_NEWS"
    ELSE IF StartsWith(l.business_name, MarkReddit) THEN "REDDIT"
    ELSE IF StartsWith(l.business_name, MarkFunded) THEN "VERIFIED_FUNDING"
    ELSE "UNKNOWN"

getLeadSource(l) ==
    IF notesChannel(l) # "fell" THEN notesChannel(l)
    ELSE IF l.source = "GULF_SNIPER" THEN "GULF"
    ELSE IF Truthy(l.source) THEN l.source
    ELSE IF StartsWith(l.business_name, MarkHN) THEN "HACKER_NEWS"
    ELSE IF StartsWith(l.business_name, MarkReddit) THEN "REDDIT"
    ELSE IF StartsWith(l.business_name, MarkFunded) THEN "VERIFIED_FUNDING"
    ELSE IF IncludesMapsProfile(l.google_maps_url) THEN "GOOGLE_MAPS"
    ELSE "UNKNOWN"

\* verify_count.js: the keywords of the sniper list
keywords ==
    {<<"l", "u", "x", "u", "r", "y">>,
     <<"p", "r", "e", "m", "i", "u", "m">>,
     <<"d", "i", "a", "m", "o", "n", "d">>,
     <<"g", "o", "l", "d">>,
     <<"j", "e", "w", "e", "l">>,
     <<"r", "e", "a", "l", "t", "y">>,
     <<"e", "s", "t", "a", "t", "e">>,
     <<"r", "o", "b", "o", "t", "i", "c">>,
     <<"i", "m", "p", "l", "a", "n", "t">>,
     <<"a", "r", "c", "h", "i", "t", "e", "c", "t">>,
     <<"v", "i", "l", "l", "a">>,
     <<"r", "e", "s", "i", "d", "e", "n", "c", "y">>,
     <<"h", "e", "i", "g", "h", "t", "s">>,
     <<"d", "e", "v", "e", "l", "o", "p", "e", "r">>,
     <<"a", "s", "s", "o", "c", "i", "a", "t", "e">>,
     <<"i", "n", "t", "e", "r", "n", "a", "t", "i", "o", "n", "a", "l">>,
     <<"w", "e", "d", "d", "i", "n", "g">>,
     <<"e", "v", "e", "n", "t">>,
     <<"c", "l", "i", "n", "i", "c">>,
     <<"f", "i", "t", "n", "e", "s", "s">>,
     <<"g", "y", "m">>,
     <<"s", "k", "i", "n">>,
     <<"d", "e", "r", "m", "a">>,
     <<"d", "e", "n", "t", "a", "l">>}

\* Ratings are in tenths of a star: 4.7
SniperRating == 47
SniperReviews == 100

\* verify_count.js: the filter that selects the survivors
isSurvivor(l) ==
    /\ ~Truthy(l.website)
    /\ l.phone # NoPhone
    /\ NumOr0(l.review_count) >= SniperReviews
    /\ LET name == toLowerCase(l.business_name) IN
       \/ \E w \in keywords : includes(name, w)
       \/ NumOr0(l.rating) >= SniperRating

---------------------------------------------------------------------------
(* The reachability check: isWhatsAppCapable *)

\* lead.phone.replace(/\D/g, '')
DigitsOnly(ph) == SelectSeq(ph, LAMBDA c : c \in Digits)

MarkerSEARCH == <<"S", "E", "A", "R", "C", "H">>
MarkerREQUIRED == <<"R", "E", "Q", "U", "I", "R", "E", "D">>
MarkerNA == <<"N", "/", "A">>

\* isWhatsAppCapable of DashboardClient.tsx, on lead.phone
isWhatsAppCapable(ph) ==
    IF ph = NoPhone THEN JFalse
    ELSE IF includes(ph, MarkerSEARCH) \/ includes(ph, MarkerREQUIRED) \/ includes(ph, MarkerNA)
    THEN JFalse
    ELSE IF Len(DigitsOnly(ph)) >= 10 THEN JTrue ELSE JFalse

\* isWhatsAppCapable of page.tsx, on lead.phone
isWhatsAppCapable_page(ph) ==
    IF ph = NoPhone THEN JFalse
    ELSE IF Len(DigitsOnly(ph)) >= 10 THEN JTrue ELSE JFalse

\* LeadCard, the link of the contact line: lead.phone && (lead.phone_type ===
\* 'MOBILE' || (lead.phone.startsWith('91') && lead.phone.length === 12))
cardContactLink(ph, phoneType) ==
    /\ ph # NoPhone /\ ph # <<>>
    /\ \/ phoneType = "MOBILE"
       \/ (StartsWith(ph, <<"9", "1">>) /\ Len(ph) = 12)

\* LeadCard, the strike button, and LeadRow, the strike button
cardStrikeLink(ph) == isWhatsAppCapable(ph) = JTrue
rowStrikeLink(ph) == isWhatsAppCapable(ph) = JTrue

\* the places that render an anchor to wa.me/<formatPhoneForWhatsApp(phone)>
renderedLinks(ph, phoneType) ==
    {place \in {"card contact", "card strike", "row strike"} :
        \/ place = "card contact" /\ cardContactLink(ph, phoneType)
        \/ place = "card strike" /\ cardStrikeLink(ph)
        \/ place = "row strike" /\ rowStrikeLink(ph)}

\* At most this many digits in the middle of a phone text
MaxDigits == 11

\* what stands before and after the digits
PhoneAffixes ==
    {<<>>, MarkerSEARCH, MarkerREQUIRED, MarkerNA,
     MarkerSEARCH \o <<"_">> \o MarkerREQUIRED,
     <<"s", "e", "a", "r", "c", "h">>, <<"N", "/">>, <<"+">>, <<"-", "1", "2">>,
     <<"9", "1">>}

ReachInputs ==
    {NoPhone} \cup
    {pre \o SubSeq(FillDigits, 1, k) \o post :
        pre \in PhoneAffixes, post \in PhoneAffixes, k \in 0..MaxDigits}

---------------------------------------------------------------------------
(* Idle values of the parts a specification does not exercise *)

PhoneIdle ==
    /\ phone = NoPhone /\ waOut = <<>> /\ phPc = "idle"
    /\ capable = "none" /\ capableV2 = "none" /\ waLinks = {}
ClsIdle ==
    /\ lead = "none" /\ analysis = "none" /\ analysisV2 = "none" /\ clsPc = "idle"
    /\ channel = "none"
NoRun == [n |-> 0, id |-> <<>>, view |-> <<>>, pinned |-> FALSE]
\* useState({ total: 0, ..., contacted: 0 }) and the zero badge of every tab
SourceTabs == {"ALL", "GOOGLE_MAPS", "GULF", "HACKER_NEWS", "REDDIT", "FUNDED"}
NoStats == [total |-> 0, contacted |-> 0]
NoCounts == [tab \in SourceTabs |-> 0]
DashIdle ==
    /\ db = <<>> /\ leads = <<>> /\ fetched = <<>> /\ searchTerm = <<>>
    /\ showPremiumOnly = FALSE /\ hideWebsites = TRUE /\ pinRun = NoRun
    /\ alerted = FALSE /\ pageLeads = <<>>
    /\ stats = NoStats /\ sourceCounts = NoCounts
NoBody == [id |-> <<>>, business_name |-> <<>>]
ApiIdle == body = NoBody /\ supabaseAdmin = TRUE /\ response = 0
Campaigns == <<"c1", "c2">>
NoCache == [k \in {"c1", "c2"} |-> UNDEF]
ViewIdle == rendered = <<>> /\ prompt = "none"
TabIdle == viewedCampaign = NULL /\ cache = NoCache /\ inflight = {} /\ delivered = NULL

---------------------------------------------------------------------------
(* Specification of the phone normaliser *)

PhoneInit ==
    /\ phone \in PhoneInputs
    /\ waOut = <<>>
    /\ phPc = "call"
    /\ capable = "none"
    /\ capableV2 = "none"
    /\ waLinks = {}
    /\ ClsIdle
    /\ DashIdle
    /\ ApiIdle
    /\ ViewIdle
    /\ TabIdle

\* one call of formatPhoneForWhatsApp(lead.phone)
FormatPhone ==
    /\ phPc = "call"
    /\ waOut' = formatPhoneForWhatsApp(phone)
    /\ phPc' = "done"
    /\ UNCHANGED <<phone, capable, capableV2, waLinks, clsVars, dashVars, apiVars, viewVars, tabVars>>

PhoneNext == FormatPhone

SpecPhone == PhoneInit /\ [][PhoneNext]_vars

ReachInit ==
    /\ phone \in ReachInputs
    /\ waOut = <<>>
    /\ phPc = "check"
    /\ capable = "none"
    /\ capableV2 = "none"
    /\ waLinks = {}
    /\ ClsIdle
    /\ DashIdle
    /\ ApiIdle
    /\ ViewIdle
    /\ TabIdle

\* one render of the messaging buttons of a lead: isWhatsAppCapable(lead), in
\* either version of the dashboard, and the links LeadCard and LeadRow of
\* DashboardClient.tsx show. The leads query does not select phone_type, so
\* the lead carries none
CheckReachable ==
    /\ phPc = "check"
    /\ capable' = isWhatsAppCapable(phone)
    /\ capableV2' = isWhatsAppCapable_page(phone)
    /\ waLinks' = renderedLinks(phone, UNDEF)
    /\ phPc' = "done"
    /\ UNCHANGED <<phone, waOut, clsVars, dashVars, apiVars, viewVars, tabVars>>

ReachNext == CheckReachable

SpecReach == ReachInit /\ [][ReachNext]_vars

---------------------------------------------------------------------------
(* Specification of the classifier *)

ClassifyInit ==
    /\ lead \in ClassifierLeads
    /\ analysis = "none"
    /\ analysisV2 = "none"
    /\ clsPc = "call"
    /\ channel = "none"
    /\ PhoneIdle
    /\ DashIdle
    /\ ApiIdle
    /\ ViewIdle
    /\ TabIdle

\* one render of a card: getAnalysis(lead), in either version of the dashboard
Classify ==
    /\ clsPc = "call"
    /\ analysis' = getAnalysis(lead)
    /\ analysisV2' = getAnalysis_page(lead)
    /\ clsPc' = "done"
    /\ UNCHANGED <<lead, channel, phoneVars, dashVars, apiVars, viewVars, tabVars>>

ClassifyNext == Classify

SpecClassify == ClassifyInit /\ [][ClassifyNext]_vars

---------------------------------------------------------------------------
(* Specification of the source resolver *)

SourceNames ==
    {<<"[", "H", "N", "]", " ", "A", "c", "m", "e">>, <<"[", "R", "e", "d", "d", "i", "t", "]", " ", "A", "c", "m", "e">>, <<"[", "F", "U", "N", "D", "E", "D", "]", " ", "A", "c", "m", "e">>,
     Acme, <<"G", "O", "L", "D", " ", "G", "y", "m">>, <<" ", "[", "H", "N", "]", " ", "A", "c", "m", "e">>, <<"[", "h", "n", "]", " ", "A", "c", "m", "e">>}

SourceNotes ==
    {AbsentNotes, MalformedNotes, JsonNotes(JNull), JSONstringify(EmptyObj),
     JSONstringify([source |-> "HIGH_INTENT_PROJECT"]),
     JSONstringify([market |-> "MIDDLE_EAST"]),
     JSONstringify([market |-> "EUROPE"]),
     JSONstringify([source |-> "VERIFIED_FUNDING", market |-> "MIDDLE_EAST"])}

SourceColumn ==
    {NULL, "GULF_SNIPER", "INDEED_GULF_HUNT", "LINKEDIN_AUTH_SNIPE",
     "CENTURION_GULF_HUNT", "JAN_2026_DUBAI", "MISSION_CONTROL"}

SourceLeads ==
    [id : {<<"a", "1">>},
     business_name : SourceNames,
     source : SourceColumn,
     notes : SourceNotes,
     google_maps_url : {NULL, MapsUrl, YelpUrl},
     website : {NULL, SiteUrl},
     phone : {NoPhone, <<"0", "5", "0", "1", "2", "3", "4", "5", "6", "7">>},
     review_count : {NoNumber, 70, SniperReviews - 1, SniperReviews},
     rating : {NoNumber, SniperRating - 1, SniperRating}]

SourceInit ==
    /\ lead \in SourceLeads
    /\ analysis = "none"
    /\ analysisV2 = "none"
    /\ clsPc = "resolve"
    /\ channel = "none"
    /\ PhoneIdle
    /\ DashIdle
    /\ ApiIdle
    /\ ViewIdle
    /\ TabIdle

\* one call of getLeadSource(lead): a tab count or the tab filter
ResolveSource ==
    /\ clsPc = "resolve"
    /\ channel' = getLeadSource(lead)
    /\ clsPc' = "done"
    /\ UNCHANGED <<lead, analysis, analysisV2, phoneVars, dashVars, apiVars, viewVars, tabVars>>

SourceNext == ResolveSource

SpecSource == SourceInit /\ [][SourceNext]_vars

---------------------------------------------------------------------------
(* Specification of the lead listing *)

\* Rows in the leads table
NumRows == 3

AcmePadded == <<" ", "a", "c", "m", "e", " ">>
Bolt == <<"B", "o", "l", "t">>
Phone050 == <<"0", "5", "0", "1", "2", "3", "4", "5", "6", "7">>

\* the ids of the rows; the third is the empty string
RowIds == <<<<"a", "1">>, <<"b", "2">>, <<>>, <<"d", "4">>>>

Row(name, campaign, st, notes, reviews, site, premium, ph) ==
    [business_name |-> name, campaign_id |-> campaign, status |-> st, notes |-> notes,
     review_count |-> reviews, website |-> site, is_premium |-> premium, phone |-> ph,
     rating |-> AukatRating, source |-> NULL, email |-> NULL, contact_name |-> NULL,
     google_maps_url |-> MapsUrl]

\* The rows the table is filled from
RowProfiles ==
    {Row(Acme, "c1", "NEW", AbsentNotes, 120, NULL, FALSE, Phone050),
     Row(AcmePadded, "c1", "CONTACTED", JSONstringify([is_pinned |-> JTrue]), 5, NULL, TRUE, NoPhone),
     Row(Bolt, "c1", "NEW", MalformedNotes, NoNumber, NULL, FALSE, NoPhone),
     Row(Bolt, "c1", "MANUAL", JSONstringify([is_pinned |-> "yes", keyword |-> "gym"]), 120, SiteUrl, TRUE, NoPhone),
     Row(Acme, "c1", "TRASH", AbsentNotes, 5, NULL, FALSE, NoPhone),
     Row(Acme, "c1", "NEW", JsonNotes(JNull), 5, NULL, FALSE, NoPhone)}

SearchTerms == {<<>>, <<"b", "o">>}

InitialTables ==
    {[i \in 1..NumRows |-> choice[i] @@ [id |-> RowIds[i]]] : choice \in [1..NumRows -> RowProfiles]}

Init ==
    /\ db \in InitialTables
    /\ leads = <<>>
    /\ fetched = <<>>
    /\ searchTerm = <<>>
    /\ showPremiumOnly = FALSE
    /\ hideWebsites = TRUE
    /\ pinRun = NoRun
    /\ alerted = FALSE
    /\ pageLeads = <<>>
    /\ stats = NoStats
    /\ sourceCounts = NoCounts
    /\ PhoneIdle
    /\ ClsIdle
    /\ ApiIdle
    /\ ViewIdle
    /\ TabIdle

ViewIds == [i \in 1..Len(filteredLeads) |-> filteredLeads[i].id]

FetchedRow(r) == [id |-> r.id, business_name |-> r.business_name]

\* the leads query runs (on mount, on window focus, after invalidateQueries)
Fetch ==
    /\ leads' = queryFn(db)
    /\ fetched' = MapLeads(selectLeads(db), FetchedRow)
    /\ pinRun' = NoRun
    /\ alerted' = FALSE
    /\ UNCHANGED <<db, searchTerm, showPremiumOnly, hideWebsites, pageLeads, stats, sourceCounts, phoneVars, clsVars, apiVars, viewVars, tabVars>>

\* toggleContacted(lead.id), pressed on the card of lead c; the store takes
\* the update (the handler does not look at the outcome of the write)
ToggleContacted(c) ==
    /\ leads' = MapLeads(leads, LAMBDA l : IF l.id = c.id THEN [l EXCEPT !.status = flipStatus(l.status)] ELSE l)
    /\ db' = updateStatus(db, c.id, flipStatus(c.status))
    /\ pinRun' = NoRun
    /\ alerted' = FALSE
    /\ UNCHANGED <<fetched, searchTerm, showPremiumOnly, hideWebsites, pageLeads, stats, sourceCounts, phoneVars, clsVars, apiVars, viewVars, tabVars>>

\* togglePin(lead), pressed on the card of lead c; the store takes the
\* update. pinRun counts the toggles made in a row on one lead
TogglePin(c) ==
    /\ leads' = MapLeads(leads, LAMBDA l : IF l.id = c.id THEN [l EXCEPT !.notes = pinnedNotes(l)] ELSE l)
    /\ db' = updateNotes(db, c.id, pinnedNotes(c))
    /\ pinRun' = IF pinRun.n = 1 /\ pinRun.id = c.id
                 THEN [pinRun EXCEPT !.n = 2]
                 ELSE [n |-> 1, id |-> c.id, view |-> ViewIds, pinned |-> getAnalysis(c).isPinned]
    /\ alerted' = FALSE
    /\ UNCHANGED <<fetched, searchTerm, showPremiumOnly, hideWebsites, pageLeads, stats, sourceCounts, phoneVars, clsVars, apiVars, viewVars, tabVars>>

\* deleteLead(lead.id, lead), pressed on the card of lead c
DeleteLead(c) ==
    /\ \/ \* the operator declines the confirm() prompt
          /\ alerted' = FALSE
          /\ UNCHANGED <<db, leads, fetched, pinRun>>
       \/ \* confirmed, and the endpoint deletes
          /\ leads' = SelectSeq(leads, LAMBDA l : l.id # c.id /\ l.business_name # c.business_name)
          /\ db' = deleteRows(db, c.id, c.business_name)
          /\ pinRun' = NoRun
          /\ alerted' = FALSE
          /\ UNCHANGED fetched
       \/ \* confirmed, and the endpoint fails: the catch raises an alert and
          \* invalidates the leads query, which replaces the optimistic list
          \* by a new fetch
          /\ leads' = queryFn(db)
          /\ fetched' = MapLeads(selectLeads(db), FetchedRow)
          /\ pinRun' = NoRun
          /\ alerted' = TRUE
          /\ UNCHANGED db
    /\ UNCHANGED <<searchTerm, showPremiumOnly, hideWebsites, pageLeads, stats, sourceCounts, phoneVars, clsVars, apiVars, viewVars, tabVars>>

\* the toolbar: search box, premium-only and strict-mode buttons
SetSearchTerm(term) ==
    /\ searchTerm # term
    /\ searchTerm' = term
    /\ pinRun' = NoRun
    /\ alerted' = FALSE
    /\ UNCHANGED <<db, leads, fetched, showPremiumOnly, hideWebsites, pageLeads, stats, sourceCounts, phoneVars, clsVars, apiVars, viewVars, tabVars>>

TogglePremiumOnly ==
    /\ showPremiumOnly' = ~showPremiumOnly
    /\ pinRun' = NoRun
    /\ alerted' = FALSE
    /\ UNCHANGED <<db, leads, fetched, searchTerm, hideWebsites, pageLeads, stats, sourceCounts, phoneVars, clsVars, apiVars, viewVars, tabVars>>

ToggleHideWebsites ==
    /\ hideWebsites' = ~hideWebsites
    /\ pinRun' = NoRun
    /\ alerted' = FALSE
    /\ UNCHANGED <<db, leads, fetched, searchTerm, showPremiumOnly, pageLeads, stats, sourceCounts, phoneVars, clsVars, apiVars, viewVars, tabVars>>

\* the handlers are those of the cards on screen
Next ==
    \/ Fetch
    \/ \E c \in Cards : ToggleContacted(c)
    \/ \E c \in Cards : TogglePin(c)
    \/ \E c \in Cards : DeleteLead(c)
    \/ \E term \in SearchTerms : SetSearchTerm(term)
    \/ TogglePremiumOnly
    \/ ToggleHideWebsites

Spec == Init /\ [][Next]_vars

---------------------------------------------------------------------------
(* The listing of page.tsx (v2.0), manual creation, and a store that may
   refuse a write *)

\* supabase.from('leads').select('*').order('created_at', desc): every row
fetchLeads_page(table) == table

\* the source tab that is open
activeTab == "ALL"

\* the source-tab test of filteredLeads in page.tsx, for the tab that is open
matchesSource(tab, l) ==
    LET leadSource == getLeadSource(l) IN
    CASE tab = "ALL" -> TRUE
      [] tab = "GOOGLE_MAPS" -> leadSource = "GOOGLE_MAPS"
      [] tab = "GULF" -> leadSource \in {"GULF", "GULF_SNIPER"}
      [] tab = "HACKER_NEWS" -> leadSource = "HACKER_NEWS"
      [] tab = "REDDIT" -> leadSource = "REDDIT"
      [] tab = "FUNDED" -> leadSource \in {"VERIFIED_FUNDING", "FUNDED"}

\* data.filter(pred).length
CountWhere(data, pred(_)) == Cardinality({i \in 1..Len(data) : pred(data[i])})

\* the stats fetchLeads sets: total, and contacted as the rows with status
\* CONTACTED or a truthy contacted column
statsOf(data) ==
    [total |-> Len(data),
     contacted |-> CountWhere(data, LAMBDA l : l.status = "CONTACTED" \/ Truthy(l.contacted))]

\* the badge fetchLeads counts a lead under: the if-chain over getLeadSource
countedUnder(l) ==
    LET src == getLeadSource(l) IN
    IF src = "GOOGLE_MAPS" THEN "GOOGLE_MAPS"
    ELSE IF src = "GULF" THEN "GULF"
    ELSE IF src = "HACKER_NEWS" THEN "HACKER_NEWS"
    ELSE IF src = "REDDIT" THEN "REDDIT"
    ELSE IF src = "VERIFIED_FUNDING" \/ src = "FUNDED" THEN "FUNDED"
    ELSE "none"

\* the sourceCounts fetchLeads sets
countsOf(data) ==
    [tab \in SourceTabs |->
        IF tab = "ALL" THEN Len(data)
        ELSE CountWhere(data, LAMBDA l : countedUnder(l) = tab)]

\* the filter of filteredLeads in page.tsx
matchesFilters_page(l) ==
    /\ \/ includes(toLowerCase(l.business_name), toLowerCase(searchTerm))
       \/ (l.phone # NoPhone /\ includes(l.phone, searchTerm))
    /\ (showPremiumOnly => l.is_premium)
    /\ matchesSource(activeTab, l)

filteredLeads_page == SelectSeq(pageLeads, matchesFilters_page)

\* the id AddLeadModal makes: btoa(form.name + Date.now())
ManualId == <<"m", "1">>

\* the row AddLeadModal inserts: the columns it does not set are null
ManualRow(name) ==
    [id |-> ManualId, business_name |-> name, status |-> "MANUAL", campaign_id |-> NULL,
     notes |-> AbsentNotes, review_count |-> NoNumber, website |-> NULL,
     is_premium |-> FALSE, phone |-> NoPhone, rating |-> NoNumber, source |-> NULL,
     email |-> NULL, contact_name |-> NULL, google_maps_url |-> NULL]

\* Rows in the table of the store specification
StoreRows == 2

StoreProfiles ==
    {Row(Acme, "c1", "NEW", AbsentNotes, 120, NULL, FALSE, Phone050),
     Row(Bolt, "c1", "MANUAL", JSONstringify([is_pinned |-> JTrue]), 5, NULL, TRUE, NoPhone),
     Row(Bolt, "c1", "CONTACTED", MalformedNotes, NoNumber, NULL, FALSE, NoPhone),
     Row(Acme, "c1", "TRASH", AbsentNotes, 5, NULL, FALSE, NoPhone)}

StoreTables ==
    {[i \in 1..StoreRows |-> choice[i] @@ [id |-> RowIds[i]]] :
        choice \in [1..StoreRows -> StoreProfiles]}

StoreInit ==
    /\ db \in StoreTables
    /\ leads = <<>>
    /\ fetched = <<>>
    /\ searchTerm = <<>>
    /\ showPremiumOnly = FALSE
    /\ hideWebsites = TRUE
    /\ pinRun = NoRun
    /\ alerted = FALSE
    /\ pageLeads = <<>>
    /\ stats = NoStats
    /\ sourceCounts = NoCounts
    /\ PhoneIdle
    /\ ClsIdle
    /\ ApiIdle
    /\ ViewIdle
    /\ TabIdle

\* fetchLeads of page.tsx (on mount, on a realtime change, after an insert)
FetchLeadsPage ==
    /\ pageLeads' = fetchLeads_page(db)
    /\ stats' = statsOf(pageLeads')
    /\ sourceCounts' = countsOf(pageLeads')
    /\ alerted' = FALSE
    /\ UNCHANGED <<db, leads, fetched, searchTerm, showPremiumOnly, hideWebsites, pinRun,
                   phoneVars, clsVars, apiVars, viewVars, tabVars>>

\* toggleContacted(lead.id) when the store answers the update with an error:
\* the awaited result is not looked at
ToggleContactedRefused(c) ==
    /\ leads' = MapLeads(leads, LAMBDA l : IF l.id = c.id THEN [l EXCEPT !.status = flipStatus(l.status)] ELSE l)
    /\ pinRun' = NoRun
    /\ alerted' = FALSE
    /\ UNCHANGED <<db, fetched, searchTerm, showPremiumOnly, hideWebsites, pageLeads, stats, sourceCounts,
                   phoneVars, clsVars, apiVars, viewVars, tabVars>>

\* togglePin(lead) when the store answers the update with an error
TogglePinRefused(c) ==
    /\ leads' = MapLeads(leads, LAMBDA l : IF l.id = c.id THEN [l EXCEPT !.notes = pinnedNotes(l)] ELSE l)
    /\ pinRun' = NoRun
    /\ alerted' = FALSE
    /\ UNCHANGED <<db, fetched, searchTerm, showPremiumOnly, hideWebsites, pageLeads, stats, sourceCounts,
                   phoneVars, clsVars, apiVars, viewVars, tabVars>>

\* handleSubmit of AddLeadModal: the insert, and on success onSave(), which
\* invalidates the leads query
AddLead(name) ==
    /\ \A i \in 1..Len(db) : db[i].id # ManualId
    /\ \/ /\ db' = <<ManualRow(name)>> \o db
          /\ leads' = queryFn(db')
          /\ fetched' = MapLeads(selectLeads(db'), FetchedRow)
          /\ pinRun' = NoRun
       \/ \* the insert is refused: the modal stays open
          UNCHANGED <<db, leads, fetched, pinRun>>
    /\ alerted' = FALSE
    /\ UNCHANGED <<searchTerm, showPremiumOnly, hideWebsites, pageLeads, stats, sourceCounts,
                   phoneVars, clsVars, apiVars, viewVars, tabVars>>

\* the operations on leads, with the toolbar left as it is
StoreNext ==
    \/ Fetch
    \/ \E c \in Cards : ToggleContacted(c)
    \/ \E c \in Cards : ToggleContactedRefused(c)
    \/ \E c \in Cards : TogglePin(c)
    \/ \E c \in Cards : TogglePinRefused(c)
    \/ \E c \in Cards : DeleteLead(c)
    \/ \E name \in {Acme, Bolt} : AddLead(name)

SpecStore == StoreInit /\ [][StoreNext]_vars

\* handleAddLead of page.tsx: the insert, and on success fetchLeads()
HandleAddLead(name) ==
    /\ \A i \in 1..Len(db) : db[i].id # ManualId
    /\ \/ /\ db' = <<ManualRow(name) @@ [contacted |-> NULL]>> \o db
          /\ pageLeads' = fetchLeads_page(db')
          /\ stats' = statsOf(pageLeads')
          /\ sourceCounts' = countsOf(pageLeads')
       \/ \* the insert is refused
          UNCHANGED <<db, pageLeads, stats, sourceCounts>>
    /\ alerted' = FALSE
    /\ UNCHANGED <<leads, fetched, searchTerm, showPremiumOnly, hideWebsites, pinRun,
                   phoneVars, clsVars, apiVars, viewVars, tabVars>>

\* toggleContacted(lead.id, lead.contacted) of page.tsx, pressed on the card
\* of lead c: the store update, then the flag of the loaded lead and the
\* contacted counter
toggleContacted_page(c) ==
    LET current == c.contacted
        flipped == IF Truthy(current) THEN JFalse ELSE JTrue IN
    /\ db' = MapLeads(db, LAMBDA r : IF r.id = c.id THEN [r EXCEPT !.contacted = flipped] ELSE r)
    /\ pageLeads' = MapLeads(pageLeads, LAMBDA l : IF l.id = c.id THEN [l EXCEPT !.contacted = flipped] ELSE l)
    /\ stats' = [stats EXCEPT !.contacted = stats.contacted + (IF Truthy(current) THEN -1 ELSE 1)]
    /\ alerted' = FALSE
    /\ UNCHANGED <<leads, fetched, searchTerm, showPremiumOnly, hideWebsites, pinRun,
                   sourceCounts, phoneVars, clsVars, apiVars, viewVars, tabVars>>

\* Rows of the table behind the source-tab dashboard
PageRow(name, st, notes, src, contacted) ==
    [Row(name, "c1", st, notes, 5, NULL, FALSE, NoPhone) EXCEPT !.source = src]
        @@ [contacted |-> contacted]

PageProfiles ==
    {PageRow(Acme, "NEW", AbsentNotes, NULL, NULL),
     PageRow(Bolt, "CONTACTED", JSONstringify([source |-> "GULF_SNIPER"]), NULL, JFalse),
     PageRow(Acme, "TRASH", AbsentNotes, "GULF_SNIPER", JTrue),
     PageRow(<<"[", "H", "N", "]", " ", "A", "c", "m", "e">>, "NEW", MalformedNotes, NULL, JTrue)}

PageTables ==
    {[i \in 1..NumRows |-> choice[i] @@ [id |-> RowIds[i]]] :
        choice \in [1..NumRows -> PageProfiles]}

PageInit ==
    /\ db \in PageTables
    /\ leads = <<>>
    /\ fetched = <<>>
    /\ searchTerm = <<>>
    /\ showPremiumOnly = FALSE
    /\ hideWebsites = TRUE
    /\ pinRun = NoRun
    /\ alerted = FALSE
    /\ pageLeads = <<>>
    /\ stats = NoStats
    /\ sourceCounts = NoCounts
    /\ PhoneIdle
    /\ ClsIdle
    /\ ApiIdle
    /\ ViewIdle
    /\ TabIdle

\* the cards of the source-tab dashboard
Cards_page == {filteredLeads_page[i] : i \in 1..Len(filteredLeads_page)}

\* the source-tab dashboard of page.tsx
PageNext ==
    \/ FetchLeadsPage
    \/ \E name \in {Acme, Bolt} : HandleAddLead(name)
    \/ \E c \in Cards_page : toggleContacted_page(c)

SpecPage == PageInit /\ [][PageNext]_vars

---------------------------------------------------------------------------
(* The handlers of the dashboard with the values their closures hold: a
   handler works on the leads of the render it was made in, while the
   updater functions of setQueryData work on the query data of the moment *)

\* Rows in the table of the handlers' specification
ViewRows == 2

ViewProfiles ==
    {Row(Acme, "c1", "NEW", AbsentNotes, 120, NULL, FALSE, Phone050),
     Row(AcmePadded, "c1", "CONTACTED", JSONstringify([is_pinned |-> JTrue]), 5, NULL, TRUE, NoPhone),
     Row(Bolt, "c1", "NEW", MalformedNotes, NoNumber, NULL, FALSE, NoPhone),
     Row(Acme, "c1", "TRASH", AbsentNotes, 5, NULL, FALSE, NoPhone)}

ViewTables ==
    {[i \in 1..ViewRows |-> choice[i] @@ [id |-> RowIds[i]]] :
        choice \in [1..ViewRows -> ViewProfiles]}

ViewInit ==
    /\ db \in ViewTables
    /\ leads = <<>>
    /\ fetched = <<>>
    /\ searchTerm = <<>>
    /\ showPremiumOnly = FALSE
    /\ hideWebsites = TRUE
    /\ pinRun = NoRun
    /\ alerted = FALSE
    /\ pageLeads = <<>>
    /\ stats = NoStats
    /\ sourceCounts = NoCounts
    /\ PhoneIdle
    /\ ClsIdle
    /\ ApiIdle
    /\ ViewIdle
    /\ TabIdle

\* the cards of the last render: their handlers hold the leads of that render
RenderedCards ==
    LET shown == SelectSeq(rendered, matchesFilters) IN
    IF \E i \in 1..Len(shown) : getAnalysis(shown[i]).threw THEN {}
    ELSE {shown[i] : i \in 1..Len(shown)}

\* a step with no dialog and no request to the delete endpoint
Quiet == body' = NoBody /\ response' = 0 /\ prompt' = "none" /\ alerted' = FALSE

\* the leads query answers (mount, window focus, invalidation)
Refetch ==
    /\ leads' = queryFn(db)
    /\ fetched' = MapLeads(selectLeads(db), FetchedRow)
    /\ Quiet
    /\ UNCHANGED <<db, rendered, searchTerm, showPremiumOnly, hideWebsites, pinRun, pageLeads,
                   stats, sourceCounts, supabaseAdmin, phoneVars, clsVars, tabVars>>

\* the component renders with the query data of the moment
Render ==
    /\ rendered # leads
    /\ rendered' = leads
    /\ Quiet
    /\ UNCHANGED <<db, leads, fetched, searchTerm, showPremiumOnly, hideWebsites, pinRun,
                   pageLeads, stats, sourceCounts, supabaseAdmin, phoneVars, clsVars, tabVars>>

\* toggleContacted(lead.id) of the card of c: the updater flips the status in
\* the query data; the status written to the store is computed from the lead
\* that leads.find gives, leads being the list of the render
toggleContacted(c) ==
    /\ leads' = MapLeads(leads, LAMBDA l : IF l.id = c.id THEN [l EXCEPT !.status = flipStatus(l.status)] ELSE l)
    /\ db' = updateStatus(db, c.id, flipStatus(LeadById(rendered, c.id).status))
    /\ Quiet
    /\ UNCHANGED <<rendered, fetched, searchTerm, showPremiumOnly, hideWebsites, pinRun, pageLeads,
                   stats, sourceCounts, supabaseAdmin, phoneVars, clsVars, tabVars>>

\* togglePin(lead) of the card of c: the updater flips the flag in the query
\* data; the notes written to the store are computed from the lead of the
\* render
togglePin(c) ==
    /\ leads' = MapLeads(leads, LAMBDA l : IF l.id = c.id THEN [l EXCEPT !.notes = pinnedNotes(l)] ELSE l)
    /\ db' = updateNotes(db, c.id, pinnedNotes(c))
    /\ Quiet
    /\ UNCHANGED <<rendered, fetched, searchTerm, showPremiumOnly, hideWebsites, pinRun, pageLeads,
                   stats, sourceCounts, supabaseAdmin, phoneVars, clsVars, tabVars>>

\* deleteLead(lead.id, lead) of the card of c: the prompt, the optimistic
\* removal, the request to the endpoint and what follows its outcome. The
\* response may be lost on the way back (arrives is false), whether or not
\* the endpoint has deleted
deleteLead(c) ==
    \E answer \in BOOLEAN :
        LET request == deleteRequest(answer, c.id, c) IN
        /\ prompt' = IF answer THEN "accepted" ELSE "declined"
        /\ body' = request
        /\ IF request = NoBody
           THEN /\ response' = 0
                /\ alerted' = FALSE
                /\ UNCHANGED <<db, leads, fetched>>
           ELSE \E storeOk \in BOOLEAN, arrives \in BOOLEAN :
                LET out == POST(db, request, supabaseAdmin, storeOk)
                    optimistic == removeOptimistic(leads, c.id, c.business_name) IN
                /\ db' = out.table
                /\ response' = IF arrives THEN out.status ELSE 0
                /\ IF arrives /\ out.status = 200
                   THEN /\ leads' = optimistic
                        /\ alerted' = FALSE
                        /\ UNCHANGED fetched
                   ELSE /\ leads' = afterDeleteFailed(optimistic, db')
                        /\ alerted' = TRUE
                        /\ fetched' = MapLeads(selectLeads(db'), FetchedRow)
        /\ UNCHANGED <<rendered, searchTerm, showPremiumOnly, hideWebsites, pinRun, pageLeads,
                       stats, sourceCounts, supabaseAdmin, phoneVars, clsVars, tabVars>>

ViewNext ==
    \/ Refetch
    \/ Render
    \/ \E c \in RenderedCards : toggleContacted(c)
    \/ \E c \in RenderedCards : togglePin(c)
    \/ \E c \in RenderedCards : deleteLead(c)

SpecView == ViewInit /\ [][ViewNext]_vars

---------------------------------------------------------------------------
(* Specification of the delete endpoint *)

\* the bodies a client sends: each field present or not
Bodies ==
    [id : {<<>>} \cup {RowIds[i] : i \in 1..NumRows},
     business_name : {<<>>, Acme, AcmePadded, Bolt}]

EndpointInit ==
    /\ db \in InitialTables
    /\ body \in Bodies
    /\ supabaseAdmin \in BOOLEAN
    /\ response = 0
    /\ leads = <<>> /\ fetched = <<>> /\ searchTerm = <<>>
    /\ showPremiumOnly = FALSE /\ hideWebsites = TRUE /\ pinRun = NoRun
    /\ alerted = FALSE /\ pageLeads = <<>>
    /\ stats = NoStats /\ sourceCounts = NoCounts
    /\ PhoneIdle
    /\ ClsIdle
    /\ ViewIdle
    /\ TabIdle

\* the endpoint answers the request
Post ==
    /\ response = 0
    /\ \E storeOk \in BOOLEAN :
        LET out == POST(db, body, supabaseAdmin, storeOk) IN
        /\ db' = out.table
        /\ response' = out.status
    /\ UNCHANGED <<body, supabaseAdmin, leads, fetched, searchTerm, showPremiumOnly,
                   hideWebsites, pinRun, alerted, pageLeads, stats, sourceCounts, phoneVars, clsVars,
                   viewVars, tabVars>>

EndpointNext == Post

SpecEndpoint == EndpointInit /\ [][EndpointNext]_vars

---------------------------------------------------------------------------
(* Claims about the classifier (checked under SpecClassify) *)

\* a property of the lead's parsed notes, as the rule table reads it
NoteOf(l, f) ==
    LET n == parseNotes(l) IN IF n.t = "obj" THEN Get(n.o, f) ELSE UNDEF

Rule1(l) == l.source = "AD_BURNER_HUNT"
Rule2(l) == l.source \in {"INDEED_GULF_HUNT", "LINKEDIN_AUTH_SNIPE", "CENTURION_GULF_HUNT"}
Rule3(l) == l.source = "HIGH_INTENT_PROJECT" \/ NoteOf(l, "intent") = "DIRECT_DEVELOPER_NEED"
Rule4(l) ==
    \/ l.source = "MISSION_CONTROL"
    \/ Truthy(NoteOf(l, "founder_linkedin"))
    \/ Truthy(NoteOf(l, "founder_email"))
Rule5(l) == l.is_premium
AnyRule1to5(l) == Rule1(l) \/ Rule2(l) \/ Rule3(l) \/ Rule4(l) \/ Rule5(l)

\* the tags of rules 1-5, in either spelling the two dashboards use
FirstRuleTags(l) ==
    IF Rule1(l) THEN {"CASH BLEED: Social Ads"}
    ELSE IF Rule2(l) THEN {"GOLD MINE: High Conversion", "Money Hunt: Hirer"}
    ELSE IF Rule3(l) THEN {"Project: Hot"}
    ELSE IF Rule4(l) THEN {"Bypass Mission"}
    ELSE {"Premium Target"}

Returned(r) == ~r.threw

\* C1: for every lead one of whose rules 1-5 holds, getAnalysis returns a
\* bundle whose tag is that of the first rule, in the order 1..5, that holds
C1_FirstRuleWins ==
    (clsPc = "done" /\ AnyRule1to5(lead)) =>
        /\ Returned(analysis)
        /\ analysis.tag \in FirstRuleTags(lead)

\* C1, on the calls that return: the tag is the first matching rule's
C1_FirstRuleWinsWhenReturned ==
    (clsPc = "done" /\ AnyRule1to5(lead) /\ Returned(analysis)) =>
        analysis.tag \in FirstRuleTags(lead)

\* C1 read on the v2.0 classifier of page.tsx
C1_FirstRuleWinsV2 ==
    (clsPc = "done" /\ AnyRule1to5(lead) /\ Returned(analysisV2)) =>
        analysisV2.tag \in FirstRuleTags(lead)

IsAukatLead(l) ==
    /\ ~Truthy(l.website)
    /\ l.rating # NoNumber /\ l.rating >= 45
    /\ l.review_count # NoNumber /\ l.review_count >= 100

\* C2: a lead with no website, rating >= 4.5 and review_count >= 100 that
\* matches none of rules 1-5 is tagged "Aukat Strike Target" (stated on the
\* bundles getAnalysis returns)
C2_AukatTag ==
    (clsPc = "done" /\ IsAukatLead(lead) /\ ~AnyRule1to5(lead) /\ Returned(analysis)) =>
        analysis.tag = "Aukat Strike Target"

\* C2 read on the v2.0 classifier of page.tsx
C2_AukatTagV2 ==
    (clsPc = "done" /\ IsAukatLead(lead) /\ ~AnyRule1to5(lead) /\ Returned(analysisV2)) =>
        analysisV2.tag = "Aukat Strike Target"

\* C3: no call of getAnalysis throws, whatever fields of the lead are
\* present and whatever its notes parse to
C3_NeverThrows == clsPc = "done" => Returned(analysis)

\* C3 read on the v2.0 classifier of page.tsx
C3_NeverThrowsV2 == clsPc = "done" => Returned(analysisV2)

WithNotes(l, n) == [l EXCEPT !.notes = n]

\* C4: for a lead whose notes are not valid JSON, getAnalysis returns, and
\* the bundle has the tag, pitch, email, sourceUrl, budget and isPinned of the
\* bundle for the same lead with notes "{}"
C4_MalformedAsEmpty ==
    (clsPc = "done" /\ lead.notes = MalformedNotes) =>
        LET ref == getAnalysis(WithNotes(lead, JsonNotes(JObj(EmptyObj)))) IN
        /\ Returned(analysis)
        /\ Returned(ref)
        /\ analysis.tag = ref.tag
        /\ analysis.pitch = ref.pitch
        /\ analysis.email = ref.email
        /\ analysis.sourceUrl = ref.sourceUrl
        /\ analysis.budget = ref.budget
        /\ analysis.isPinned = ref.isPinned

\* a lead with malformed notes has been classified by one of the rules that
\* read the notes (rule 4, reached through the source column)
C4_Witness ==
    /\ clsPc = "done"
    /\ lead.notes = MalformedNotes
    /\ lead.source = "MISSION_CONTROL"
    /\ Returned(analysis)
    /\ analysis.tag = "Bypass Mission"
    /\ analysis.pitch.a1 = "Founder"

---------------------------------------------------------------------------
(* Claims about the phone normaliser (checked under SpecPhone) *)

UaeCode == <<"9", "7", "1">>
IndiaCode == <<"9", "1">>
IsPlus(s) == Len(s) > 0 /\ s[1] = "+"
IsTrunk(s) == Len(s) > 1 /\ s[1] = "0" /\ s[2] \in {"5", "4"}
IsIndian(s) == Len(s) = 10 /\ s[1] \in {"6", "7", "8", "9"}
IsBareUae(s) == Len(s) = 9 /\ s[1] = "5"

C10_DigitsOnly ==
    phPc = "done" => \A i \in 1..Len(waOut) : waOut[i] \in Digits

\* C27: formatPhoneForWhatsApp is idempotent: applied to a value it returned,
\* it returns that value again
C27_Idempotent ==
    phPc = "done" => formatPhoneForWhatsApp(waOut) = waOut

\* the same over the inputs whose only '+' is a leading one
C27_IdempotentOnePlus ==
    (phPc = "done" /\ \A i \in 2..Len(phone) : phone[i] # "+")
        => formatPhoneForWhatsApp(waOut) = waOut

----------------------------------------------------------------------------
\* Claims on the rendered list, under Spec

IsPinned(l) == getAnalysis(l).isPinned
Reviews(l) == NumOr0(l.review_count)
Bit(b) == IF b THEN 1 ELSE 0
SortKey(l) == <<Bit(IsPinned(l)), Bit(getAnalysis(l).tag = AukatTag), Reviews(l)>>
KeyGeq(k1, k2) ==
    \/ k1[1] > k2[1]
    \/ k1[1] = k2[1] /\ k1[2] > k2[2]
    \/ k1[1] = k2[1] /\ k1[2] = k2[2] /\ k1[3] >= k2[3]

\* C5: in the rendered list every pinned lead stands before every lead that
\* is not pinned, whatever their tags and review counts, in every state the
\* toggles and deletes can reach.
C5_PinnedFirst ==
    \A i, j \in 1..Len(filteredLeads) :
        IsPinned(filteredLeads[i]) /\ ~IsPinned(filteredLeads[j]) => i < j

\* a pin toggle has just acted, and the pinned lead stands before an
\* unpinned lead with more reviews
C5_Witness ==
    /\ pinRun.n = 1
    /\ \E i, j \in 1..Len(filteredLeads) :
        /\ i < j
        /\ IsPinned(filteredLeads[i]) /\ ~IsPinned(filteredLeads[j])
        /\ Reviews(filteredLeads[i]) < Reviews(filteredLeads[j])

\* C6: the rendered list is ordered by the key (isPinned, tag is "Aukat
\* Strike Target", review_count with an absent count as 0), all descending:
\* a lead listed before another has a lexicographically greater or equal key.
C6_CompositeKeyOrder ==
    \A i, j \in 1..Len(filteredLeads) :
        i < j => KeyGeq(SortKey(filteredLeads[i]), SortKey(filteredLeads[j]))

\* two leads of the same pin state are listed, the one without a review
\* count after the one with reviews although the table has it first
C6_Witness ==
    \E i, j \in 1..Len(filteredLeads) :
        /\ i < j
        /\ IsPinned(filteredLeads[i]) = IsPinned(filteredLeads[j])
        /\ filteredLeads[i].review_count > 0
        /\ filteredLeads[j].review_count = NoNumber
        /\ \E m, n \in 1..Len(leads) :
            m < n /\ leads[m].id = filteredLeads[j].id /\ leads[n].id = filteredLeads[i].id

\* C7: after togglePin has run twice in a row on the same lead, with no
\* other step in between, the lead's isPinned value and the whole rendered
\* order are what they were before the first of the two.
C7_DoubleToggleRestores ==
    pinRun.n = 2 =>
        /\ ViewIds = pinRun.view
        /\ IsPinned(LeadById(leads, pinRun.id)) = pinRun.pinned

\* the second toggle has run on a lead that was unpinned, with malformed
\* notes, and listed behind another lead before the first toggle
C7_Witness ==
    /\ pinRun.n = 2
    /\ pinRun.pinned = FALSE
    /\ Len(pinRun.view) >= 2
    /\ pinRun.view[1] # pinRun.id
    /\ \E i \in 1..Len(db) : db[i].id = pinRun.id /\ db[i].business_name = Bolt

FirstFetched(name) ==
    CHOOSE k \in 1..Len(fetched) :
        /\ normalizedName(fetched[k]) = name
        /\ \A m \in 1..(k - 1) : normalizedName(fetched[m]) # name

\* C8: no two leads of the listing have the same trimmed, lower-cased
\* business name, and each is the first of the fetched rows with that name,
\* after the fetch and after every optimistic update.
C8_FirstSeenOnly ==
    /\ \A i, j \in 1..Len(leads) :
        i # j => normalizedName(leads[i]) # normalizedName(leads[j])
    /\ \A i \in 1..Len(leads) :
        /\ \E k \in 1..Len(fetched) : normalizedName(fetched[k]) = normalizedName(leads[i])
        /\ fetched[FirstFetched(normalizedName(leads[i]))].id = leads[i].id

\* the fetch returned "Acme" and " acme ", the first of them is in the
\* listing, and it has been toggled since
C8_Witness ==
    /\ \E m, n \in 1..Len(fetched) :
        /\ m < n
        /\ fetched[m].business_name # fetched[n].business_name
        /\ normalizedName(fetched[m]) = normalizedName(fetched[n])
        /\ \E i \in 1..Len(leads) : leads[i].id = fetched[m].id
    /\ pinRun.n = 1

----------------------------------------------------------------------------
\* Claims on the reachability check, under SpecReach

HasMarker(ph) ==
    includes(ph, MarkerSEARCH) \/ includes(ph, MarkerREQUIRED) \/ includes(ph, MarkerNA)

\* what the contract of isReachable gives for a phone text
IsReachable(ph) ==
    IF ph = NoPhone \/ HasMarker(ph) \/ Len(DigitsOnly(ph)) < 10 THEN JFalse ELSE JTrue

\* C11: each reachability check of the repository is false exactly when the
\* phone is absent, or contains SEARCH, REQUIRED or N/A, or has fewer than 10
\* digits, and true in every other case
C11_ReachableExactly ==
    phPc = "done" => capable = IsReachable(phone) /\ capableV2 = IsReachable(phone)

\* C11 read on the check of DashboardClient.tsx alone
C11_ReachableExactlyV21 ==
    phPc = "done" => capable = IsReachable(phone)

\* C26: a place of a card or row renders a WhatsApp link for a lead only if
\* isWhatsAppCapable(lead) is true: no link for a phone that is absent, holds
\* a placeholder marker or has fewer than 10 digits
C26_LinkOnlyIfCapable ==
    phPc = "done" => (waLinks # {} => capable = JTrue /\ IsReachable(phone) = JTrue)

\* the same for the two strike buttons alone
C26_StrikeOnlyIfCapable ==
    phPc = "done" =>
        (waLinks \cap {"card strike", "row strike"} # {} => capable = JTrue /\ IsReachable(phone) = JTrue)

----------------------------------------------------------------------------
\* Claims on the source resolver, under SpecSource

NotesField(l, f) ==
    IF l.notes.kind = "json" /\ l.notes.val.t = "obj" THEN Get(l.notes.val.o, f) ELSE UNDEF

HasMarker123(l) ==
    \/ StartsWith(l.business_name, MarkHN)
    \/ StartsWith(l.business_name, MarkReddit)
    \/ StartsWith(l.business_name, MarkFunded)

\* predicates 1-4 of the resolver's contract
Predicate1(l) == Truthy(NotesField(l, "source")) \/ l.source \in HirerSources
Predicate2(l) == NotesField(l, "market") = "MIDDLE_EAST" \/ l.source = "GULF_SNIPER"
Predicate3(l) == Truthy(l.source)
Predicate4(l) == HasMarker123(l)
NoneOf1to4(l) == ~Predicate1(l) /\ ~Predicate2(l) /\ ~Predicate3(l) /\ ~Predicate4(l)

\* predicate 5: the sniper bucket, or the relaxed quality bucket
LegacyHeuristic(l) ==
    \/ isSurvivor(l)
    \/ NumOr0(l.review_count) >= 70 /\ NumOr0(l.rating) >= SniperRating

\* C12: a lead whose notes hold a source field, or whose source column is
\* one of the three hunt identifiers, resolves to MONEY_HUNT, before every
\* later predicate
C12_MoneyHunt ==
    (clsPc = "done" /\ Predicate1(lead)) => channel = "MONEY_HUNT"

\* C13: for a lead without a source column and with absent or malformed
\* notes the resolver returns one tag: HACKER_NEWS, REDDIT or VERIFIED_FUNDING
\* for a name starting with [HN], [Reddit] or [FUNDED], whatever the maps URL;
\* else, where the legacy heuristic does not apply, GOOGLE_MAPS when the maps
\* URL is a mapping-service profile and UNKNOWN when it is not
C13_NoSourceNoNotes ==
    (clsPc = "done" /\ ~Truthy(lead.source) /\ lead.notes.kind \in {"absent", "malformed"}) =>
        /\ StartsWith(lead.business_name, MarkHN) => channel = "HACKER_NEWS"
        /\ StartsWith(lead.business_name, MarkReddit) => channel = "REDDIT"
        /\ StartsWith(lead.business_name, MarkFunded) => channel = "VERIFIED_FUNDING"
        /\ (~HasMarker123(lead) /\ ~LegacyHeuristic(lead)) =>
              channel = IF IncludesMapsProfile(lead.google_maps_url)
                        THEN "GOOGLE_MAPS" ELSE "UNKNOWN"

\* "[HN] Acme" with malformed notes and a maps profile has resolved to HACKER_NEWS
C13_Witness ==
    /\ clsPc = "done"
    /\ lead.source = NULL
    /\ lead.notes = MalformedNotes
    /\ StartsWith(lead.business_name, MarkHN)
    /\ lead.google_maps_url = MapsUrl
    /\ channel = "HACKER_NEWS"

\* C14: among the leads matching none of predicates 1-4, those the resolver
\* puts in the sniper bucket (neither GOOGLE_MAPS nor UNKNOWN) are exactly
\* those the filter of verify_count.js selects
C14_SniperBucket ==
    (clsPc = "done" /\ NoneOf1to4(lead)) =>
        (channel \notin {"GOOGLE_MAPS", "UNKNOWN"} <=> isSurvivor(lead))

----------------------------------------------------------------------------
\* Claims on the delete endpoint, under SpecEndpoint

\* C17: a request with a non-empty business_name that the store carries
\* out removes the rows with that business_name and no other, whatever id
\* was sent; with no business_name but an id, the rows with that id and no
\* other; with neither, or without the privileged client, no row is removed
\* and the response is an error
C17_DeleteEndpoint ==
    [][response' # response =>
        /\ body.business_name = <<>> /\ body.id = <<>> => db' = db /\ response' = 400
        /\ ~supabaseAdmin => db' = db /\ response' >= 400
        /\ response' # 200 => db' = db
        /\ response' = 200 /\ body.business_name # <<>> =>
              db' = SelectSeq(db, LAMBDA r : r.business_name # body.business_name)
        /\ response' = 200 /\ body.business_name = <<>> =>
              db' = SelectSeq(db, LAMBDA r : r.id # body.id)]_vars

\* the endpoint has deleted by name: a row named "Acme" is gone, and the row
\* whose id the request carried, of another name, is still in the table
C17_Witness ==
    /\ response = 200
    /\ body.business_name = Acme
    /\ Len(db) < NumRows
    /\ \E i \in 1..Len(db) : db[i].id = body.id /\ db[i].business_name # Acme

----------------------------------------------------------------------------
\* Claims on the status lifecycle and on persistence failures, under SpecStore

\* the status changes the lifecycle allows on a lead that stays in a list
AllowedChange(old, new) ==
    \/ new = old
    \/ old = "NEW" /\ new = "CONTACTED"
    \/ old = "CONTACTED" /\ new = "NEW"
    \/ new = "TRASH"

\* C15: in every step, a lead that stays in the table (or in the cache)
\* keeps its status or changes it NEW -> CONTACTED, CONTACTED -> NEW or to
\* TRASH, and a lead that enters the table by manual creation has status
\* MANUAL; no step makes any other change, such as MANUAL -> CONTACTED
C15_StatusTransitions ==
    [][/\ \A i \in 1..Len(db) : \A j \in 1..Len(db') :
            db[i].id = db'[j].id => AllowedChange(db[i].status, db'[j].status)
       /\ \A i \in 1..Len(leads) : \A j \in 1..Len(leads') :
            leads[i].id = leads'[j].id => AllowedChange(leads[i].status, leads'[j].status)
       /\ \A j \in 1..Len(db') :
            (\A i \in 1..Len(db) : db[i].id # db'[j].id) => db'[j].status = "MANUAL"]_vars

StatusIn(list, id) == LeadById(list, id).status

\* C16: when the store refuses the update of toggleContacted or togglePin,
\* the cache ends with the status / pinned flag the lead had before, and an
\* error is shown
C16_RevertOnFailure ==
    [][\A c \in Cards :
        /\ ToggleContactedRefused(c) => StatusIn(leads', c.id) = c.status /\ alerted'
        /\ TogglePinRefused(c) =>
              getAnalysis(LeadById(leads', c.id)).isPinned = getAnalysis(c).isPinned /\ alerted']_vars

----------------------------------------------------------------------------
\* Claims on the views of the dashboard, under SpecPage and Spec

\* C18: no lead with status TRASH is in a rendered list, in the dashboard of
\* DashboardClient.tsx or in that of page.tsx
C18_NoTrashListed ==
    /\ \A i \in 1..Len(filteredLeads) : filteredLeads[i].status # "TRASH"
    /\ \A i \in 1..Len(filteredLeads_page) : filteredLeads_page[i].status # "TRASH"

\* C18 read on the dashboard of DashboardClient.tsx alone
C18_NoTrashListedV21 ==
    \A i \in 1..Len(filteredLeads) : filteredLeads[i].status # "TRASH"

\* C29: in the source-tab dashboard the badge of every tab equals the number
\* of loaded leads the filter of that tab admits (empty search term,
\* premium-only off)
C29_BadgeEqualsShown ==
    \A tab \in SourceTabs :
        sourceCounts[tab] = CountWhere(pageLeads, LAMBDA l : matchesSource(tab, l))

\* C30: in the source-tab dashboard the contacted statistic equals the number
\* of loaded leads with status CONTACTED or a true contacted flag
C30_ContactedStat ==
    stats.contacted = CountWhere(pageLeads, LAMBDA l : l.status = "CONTACTED" \/ Truthy(l.contacted))

\* C28: once a manual lead was saved through AddLeadModal and the leads query
\* has refetched, the new lead is in the displayed listing of the open
\* campaign when the search box is empty and the premium-only filter is off
C28_ManualLeadListed ==
    ((\E i \in 1..Len(db) : db[i].id = ManualId) /\ searchTerm = <<>> /\ ~showPremiumOnly)
        => \E i \in 1..Len(shownLeads) : shownLeads[i].id = ManualId

----------------------------------------------------------------------------
\* Claims on the premium pitch, under Spec

RECURSIVE SumOfCodes(_, _)
\* the sum of the character codes of the first n characters of id
SumOfCodes(id, n) == IF n = 0 THEN 0 ELSE SumOfCodes(id, n - 1) + CharCode(id[n])

PremiumTagged(l) == ~getAnalysis(l).threw /\ getAnalysis(l).tag = "Premium Target"

\* C19: a cached lead the premium rule matches gets the template numbered
\* (sum of the character codes of its id) mod 3, a number in 0..2 also for
\* the empty id, and keeps that template through every step in which it
\* stays in the cache
C19_StableVariant ==
    /\ [](\A i \in 1..Len(leads) :
            PremiumTagged(leads[i]) =>
                /\ getAnalysis(leads[i]).pitch.variant = SumOfCodes(leads[i].id, Len(leads[i].id)) % 3
                /\ getAnalysis(leads[i]).pitch.variant \in 0..2)
    /\ [][\A i \in 1..Len(leads) : \A j \in 1..Len(leads') :
            (leads[i].id = leads'[j].id /\ PremiumTagged(leads[i]) /\ PremiumTagged(leads'[j])) =>
                getAnalysis(leads'[j]).pitch = getAnalysis(leads[i]).pitch]_vars

\* a premium lead with the empty id is in the cache, classified again after
\* its pin was toggled
C19_Witness ==
    /\ pinRun.n = 1
    /\ pinRun.id = <<>>
    /\ \E i \in 1..Len(leads) :
        /\ leads[i].id = <<>>
        /\ PremiumTagged(leads[i])
        /\ getAnalysis(leads[i]).pitch.variant = 0

----------------------------------------------------------------------------
\* Claims on the last rules of the classifier, under SpecClassify

\* rules 6 and 7: no website, rating >= 4.5 and at least 50 reviews
Rule6or7(l) ==
    /\ ~Truthy(l.website)
    /\ NumOr0(l.rating) >= AukatRating
    /\ NumOr0(l.review_count) >= TopRatedReviews

\* C20: a lead matching none of rules 1-7 gets the rule-8 tag exactly when
\* it has no website, and a lead with a website matching none of rules 1-5
\* gets the default tag whatever its source (stated on the bundles
\* getAnalysis of DashboardClient.tsx returns)
C20_NoWebsiteIff ==
    (clsPc = "done" /\ ~AnyRule1to5(lead) /\ Returned(analysis)) =>
        /\ ~Rule6or7(lead) => (analysis.tag = "No Website Gold" <=> ~Truthy(lead.website))
        /\ Truthy(lead.website) => analysis.tag = "Growth Target"

\* C20 read on the v2.0 classifier of page.tsx
C20_NoWebsiteIffV2 ==
    (clsPc = "done" /\ ~AnyRule1to5(lead) /\ Returned(analysisV2)) =>
        /\ ~Rule6or7(lead) => (analysisV2.tag = "No Website" <=> ~Truthy(lead.website))
        /\ Truthy(lead.website) => analysisV2.tag = "Optimization"

---------------------------------------------------------------------------
(* Campaign tabs: the leads query is keyed by the open campaign, and the
   answers of queries sent for several tabs arrive in any order *)

\* Rows in the table of the tabs' specification
TabRows == 3

TabProfiles ==
    {Row(Acme, "c1", "NEW", AbsentNotes, 120, NULL, FALSE, Phone050),
     Row(Acme, "c2", "CONTACTED", AbsentNotes, 5, NULL, TRUE, NoPhone),
     Row(Bolt, "c2", "NEW", MalformedNotes, NoNumber, NULL, FALSE, NoPhone),
     Row(Bolt, "c1", "TRASH", AbsentNotes, 5, NULL, FALSE, NoPhone)}

TabTables ==
    {[i \in 1..TabRows |-> choice[i] @@ [id |-> RowIds[i]]] :
        choice \in [1..TabRows -> TabProfiles]}

TabInit ==
    /\ db \in TabTables
    /\ leads = <<>>
    /\ fetched = <<>>
    /\ searchTerm = <<>>
    /\ showPremiumOnly = FALSE
    /\ hideWebsites = TRUE
    /\ pinRun = NoRun
    /\ alerted = FALSE
    /\ pageLeads = <<>>
    /\ stats = NoStats
    /\ sourceCounts = NoCounts
    /\ PhoneIdle
    /\ ClsIdle
    /\ ApiIdle
    /\ ViewIdle
    /\ TabIdle

\* a render with tab k open: the query of key k is sent when it has no data,
\* or when its data is stale (older than staleTime), unless one is on its way
sendQuery(k, stale) ==
    IF (cache[k] = UNDEF \/ stale) /\ ~\E m \in inflight : m.key = k
    THEN inflight \cup {[key |-> k, data |-> queryFnOf(db, k)]}
    ELSE inflight

\* the effect that opens the first campaign when none is open
DefaultCampaign ==
    /\ ~Truthy(viewedCampaign)
    /\ Len(Campaigns) > 0
    /\ viewedCampaign' = Campaigns[1]
    /\ inflight' = sendQuery(Campaigns[1], FALSE)
    /\ leads' = dataOf(cache, viewedCampaign')
    /\ delivered' = NULL
    /\ UNCHANGED <<db, cache, fetched, searchTerm, showPremiumOnly, hideWebsites, pinRun, alerted,
                   pageLeads, stats, sourceCounts, phoneVars, clsVars, apiVars, viewVars>>

\* the operator clicks the tab of campaign k
SetActiveCampaignId(k) ==
    /\ viewedCampaign # k
    /\ viewedCampaign' = k
    /\ \E stale \in BOOLEAN : inflight' = sendQuery(k, stale)
    /\ leads' = dataOf(cache, k)
    /\ delivered' = NULL
    /\ UNCHANGED <<db, cache, fetched, searchTerm, showPremiumOnly, hideWebsites, pinRun, alerted,
                   pageLeads, stats, sourceCounts, phoneVars, clsVars, apiVars, viewVars>>

\* the answer of a query arrives; the list on screen is the data under the
\* key of the open tab
Deliver(m) ==
    /\ cache' = setQueryData(cache, viewedCampaign, m.key, m.data)
    /\ inflight' = inflight \ {m}
    /\ leads' = dataOf(cache', viewedCampaign)
    /\ delivered' = m.key
    /\ UNCHANGED <<db, viewedCampaign, fetched, searchTerm, showPremiumOnly, hideWebsites, pinRun,
                   alerted, pageLeads, stats, sourceCounts, phoneVars, clsVars, apiVars, viewVars>>

TabNext ==
    \/ DefaultCampaign
    \/ \E i \in 1..Len(Campaigns) : SetActiveCampaignId(Campaigns[i])
    \/ \E m \in inflight : Deliver(m)

SpecTabs == TabInit /\ [][TabNext]_vars

---------------------------------------------------------------------------
(* Claims about the handlers and their closures (checked under SpecView) *)

RowWithId(table, id) == \E k \in 1..Len(table) : table[k].id = id

Listed(list, id) == \E j \in 1..Len(list) : list[j].id = id

\* C21: when the operator declines the confirmation of deleteLead the query
\* data and the store are left as they are and no request goes to the delete
\* endpoint; a request goes out, and rows leave the store, only in a step
\* whose confirmation was accepted
C21_ConfirmBeforeDelete ==
    [][/\ prompt' = "declined" => (leads' = leads /\ db' = db /\ body' = NoBody /\ response' = 0)
       /\ (body' # NoBody \/ Len(db') < Len(db)) => prompt' = "accepted"]_vars

\* the operator has declined the prompt on a card of a loaded list
C21_Witness ==
    /\ prompt = "declined"
    /\ body = NoBody
    /\ Len(leads) > 0
    /\ Len(rendered) > 0

\* C22: when the request of deleteLead fails (a response that is not OK, or
\* none) an alert is raised and the optimistic removal is undone: every lead
\* that was listed before and whose row is still in the store is listed
\* after the step
C22_DeleteFailureUndone ==
    [][(body' # NoBody /\ response' # 200) =>
          /\ alerted'
          /\ \A i \in 1..Len(leads) :
                RowWithId(db', leads[i].id) => Listed(leads', leads[i].id)]_vars

\* a delete has failed on a listed lead, and the lead is listed after it
C22_Witness ==
    /\ body # NoBody
    /\ response = 500
    /\ alerted
    /\ Listed(leads, body.id)
    /\ RowWithId(db, body.id)

\* C24: with every store write taken, the status and the pinned flag of each
\* lead of the query data equal those of its row in the store, also when
\* two toggles of a lead are issued within one render
C24_CacheMatchesStore ==
    \A i \in 1..Len(leads) : \A k \in 1..Len(db) :
        db[k].id = leads[i].id =>
            /\ db[k].status = leads[i].status
            /\ IsPinned(db[k]) = IsPinned(leads[i])

\* C25: when deleteLead has succeeded for a lead and the list is fetched
\* again, no listed lead has the normalized business name of the deleted one
C25_PurgesDuplicates ==
    [][(body # NoBody /\ response = 200 /\ Refetch) =>
          \A j \in 1..Len(leads') :
              normalizedName(leads'[j]) # trim(toLowerCase(body.business_name))]_vars

---------------------------------------------------------------------------
(* Claim about the campaign tabs (checked under SpecTabs) *)

\* C23: in whatever order the answers of the leads queries arrive after tab
\* switches, every lead on screen has the campaign_id of the open tab, and
\* an answer for a tab that is not open leaves the list on screen as it is
C23_OnlyActiveCampaign ==
    /\ [](\A i \in 1..Len(leads) : leads[i].campaign_id = viewedCampaign)
    /\ [][(delivered' # NULL /\ delivered' # viewedCampaign') => leads' = leads]_vars

\* the answer for campaign c1 has arrived while the tab of c2 is open and
\* shows its leads
C23_Witness ==
    /\ viewedCampaign = "c2"
    /\ delivered = "c1"
    /\ cache["c1"] # UNDEF /\ cache["c1"] # <<>>
    /\ leads # <<>>

=============================================================================
